---- MODULE Spec2Model ----
(***************************************************************************)
(* Authentication / authorization pipeline of the book-inventory back end: *)
(* UserService (signup, signin, changePassword, accessToken, update,       *)
(* remove), JwtAuthGuard, RolesGuard, LoggerMiddleware,                    *)
(* CurrentUserMiddleware and the two AppModule wirings.                    *)
(*                                                                         *)
(* Strings the code compares piecewise are records or sequences here:      *)
(*   - a password value is [kind |-> "str", s |-> p] (plaintext) or        *)
(*     [kind |-> "bcrypt", salt |-> n, of |-> p] (bcrypt output);          *)
(*   - a JWT is [kind |-> "jwt", id, email, iat, exp, key]: key is the     *)
(*     secret the HMAC signature was computed with, so the signature       *)
(*     checks under secret s iff key = s;                                  *)
(*   - an Authorization header is the sequence header.split(' ');          *)
(*   - time is counted in hours.                                           *)
(***************************************************************************)
EXTENDS Integers, Sequences, FiniteSets, TLC

\* ---------------------------------------------------------------- bounds
MaxClock == 3
MaxUsers == 2
MaxProcs == 2
MaxTokens == 1

\* ------------------------------------------------------------ JS values
Null == [kind |-> "null"]
Undefined == [kind |-> "undefined"]

\* enum RoleTypes / enum Status of ../enum/user-enum
RoleTypes == {"User", "Admin"}
Status == {"Active", "Deactivated"}
\* a RoleTypes[] value: @Roles(...) metadata or a DTO's role array
Roles(set) == [kind |-> "roles", of |-> set]
DEACTIVATED == "Deactivated"
ACTIVE == "Active"

Emails == {"a@x.com", "b@x.com"}
Passwords == {"password1", "password2"}
Salts == {1}

\* process.env: a variable is a string or undefined
EnvUnset == "<undefined>"
FallbackSecret == "likujyhtgrfedwsedrftgyhujikolplokijuhygtrfedwsedrftghyujikolpplokijuhy"
SecretEnvValues == {EnvUnset, "k1"}
ExpireEnvValues == {EnvUnset, "2h"}
\* secrets a presented token may have been signed with
SigningKeys == {"k1", "k2", FallbackSecret}

\* JS truthiness of a string-or-undefined
Truthy(s) == s # EnvUnset /\ s # ""

\* a || b on strings
OrElse(a, b) == IF Truthy(a) THEN a ELSE b

VARIABLES
    secretEnv,   \* process.env.ACCESS_TOKEN_SECRET_KEY
    expireEnv,   \* process.env.ACCESS_TOKEN_EXPIRE_TIME
    wiring,      \* which AppModule is assembled: "Logger" | "CurrentUser"
    users,       \* table Users: set of rows
    nextId,      \* PrimaryGeneratedColumn sequence
    now,         \* clock, hours
    tokens,      \* the access tokens handed out so far (held by clients)
    procs,       \* in-flight UserService calls, per slot
    resp         \* what the last completed call or request returned

vars == <<secretEnv, expireEnv, wiring, users, nextId, now, tokens, procs, resp>>

\* ------------------------------------------------------------- bcrypt
\* hash(plaintext, 10): salted one-way output
hash(p, salt) == [kind |-> "bcrypt", salt |-> salt, of |-> p]

\* compare(plaintext, stored): false for anything that is not a hash of it
compare(p, h) == h.kind = "bcrypt" /\ h.of = p

\* ------------------------------------------------------- jsonwebtoken
\* ms('1h') / 3600000, ms('2h') / 3600000; 0 stands for an unparsable span
Timespan(s) == IF s = "1h" THEN 1 ELSE IF s = "2h" THEN 2 ELSE 0

\* sign(payload, secret, {expiresIn}): iat = now, exp = iat + timespan
sign(id, email, secret, expiresIn) ==
    [kind |-> "jwt", id |-> id, email |-> email, iat |-> now,
     exp |-> now + Timespan(expiresIn), key |-> secret]

Garbage == [kind |-> "garbage"]

\* verify(token, secret): the error name, or "ok"
verifyErrorMutNoExpiry(token, secret) ==
    IF token.kind # "jwt" THEN "JsonWebTokenError"
    ELSE IF ~Truthy(secret) THEN "JsonWebTokenError"
    ELSE IF token.key # secret THEN "JsonWebTokenError"
    ELSE "ok"

verifyErrorMutNoSignature(token, secret) ==
    IF token.kind # "jwt" THEN "JsonWebTokenError"
    ELSE IF now >= token.exp THEN "TokenExpiredError"
    ELSE "ok"

verifyError(token, secret) ==
    IF token.kind # "jwt" THEN "JsonWebTokenError"
    ELSE IF ~Truthy(secret) THEN "JsonWebTokenError"
    ELSE IF token.key # secret THEN "JsonWebTokenError"
    ELSE IF now >= token.exp THEN "TokenExpiredError"
    ELSE "ok"

\* ---------------------------------------------------- the Users table
Row(id, email, password, role, status) ==
    [kind |-> "user", id |-> id, email |-> email, password |-> password, role |-> role,
     status |-> status, createdBy |-> "Admin", updatedBy |-> "Admin"]

\* repository.findOne({where: {email}, select: [..., 'password', ...]})
findUserByEmail(email) ==
    IF \E u \in users : u.email = email
    THEN CHOOSE u \in users : u.email = email
    ELSE Null

\* repository.findOne({where: {id}}): password is select: false
findById(id) ==
    IF \E u \in users : u.id = id
    THEN LET u == CHOOSE r \in users : r.id = id
         IN [u EXCEPT !.password = Undefined]
    ELSE Null

\* repository.save(entity): INSERT when the id is new, UPDATE of the defined
\* columns otherwise; Users.email carries a UNIQUE constraint, password is
\* NOT NULL. Gives the table afterwards, or the table unchanged and ok = FALSE.
saveMutNoUnique(entity) ==
    LET old == IF \E u \in users : u.id = entity.id
               THEN CHOOSE u \in users : u.id = entity.id ELSE Null
        merged == IF old = Null THEN entity
                  ELSE [entity EXCEPT !.password =
                            IF entity.password = Undefined THEN old.password
                            ELSE entity.password]
    IN  IF merged.password = Undefined
        THEN [ok |-> FALSE, users |-> users, entity |-> Null]
        ELSE [ok |-> TRUE,
              users |-> {u \in users : u.id # entity.id} \cup {merged},
              entity |-> merged]

save(entity) ==
    LET old == IF \E u \in users : u.id = entity.id
               THEN CHOOSE u \in users : u.id = entity.id ELSE Null
        merged == IF old = Null THEN entity
                  ELSE [entity EXCEPT !.password =
                            IF entity.password = Undefined THEN old.password
                            ELSE entity.password]
        clash == \E u \in users : u.id # entity.id /\ u.email = merged.email
    IN  IF clash \/ merged.password = Undefined
        THEN [ok |-> FALSE, users |-> users, entity |-> Null]
        ELSE [ok |-> TRUE,
              users |-> {u \in users : u.id # entity.id} \cup {merged},
              entity |-> merged]

\* ------------------------------------------------------- call results
Ok(value) == [ok |-> TRUE, http |-> 200, error |-> "", value |-> value]
Throw(http, msg) == [ok |-> FALSE, http |-> http, error |-> msg, value |-> Null]
BadRequestException(msg) == Throw(400, msg)
NotFoundException(msg) == Throw(404, msg)
UnauthorizedException(msg) == Throw(401, msg)
ForbiddenException(msg) == Throw(403, msg)
InternalError(msg) == Throw(500, msg)

\* ------------------------------------------------------- UserService
DtoAbsent == "<undefined>"

\* signup, lines 40-42: the existence check
signupCheckMutNone(userExist) == Ok(Null)

signupCheck(userExist) ==
    IF userExist # Null
    THEN BadRequestException("This email is already created")
    ELSE Ok(Null)

\* signup, lines 44-49: hash, create, save. The new row takes the next id;
\* status falls back to the column default.
signupEntityMutPlain(dto, salt) ==
    Row(nextId, dto.email, [kind |-> "plain", of |-> dto.password], dto.role,
        IF dto.status = DtoAbsent THEN ACTIVE ELSE dto.status)

signupEntity(dto, salt) ==
    Row(nextId, dto.email, hash(dto.password, salt), dto.role,
        IF dto.status = DtoAbsent THEN ACTIVE ELSE dto.status)

\* signin, lines 67-79, on the row findUserByEmail returned
signinCheckMutPasswordFirst(userExist, dto) ==
    IF userExist = Null THEN BadRequestException("User not found")
    ELSE IF ~compare(dto.password, userExist.password)
         THEN BadRequestException("Invalid credentials")
    ELSE IF userExist.status = DEACTIVATED
         THEN BadRequestException("User is Deactivated")
    ELSE Ok(userExist)

signinCheckMutNoCompare(userExist, dto) ==
    IF userExist = Null THEN BadRequestException("User not found")
    ELSE IF userExist.status = DEACTIVATED
         THEN BadRequestException("User is Deactivated")
    ELSE Ok(userExist)

signinCheckMutGenericMessage(userExist, dto) ==
    IF userExist = Null THEN BadRequestException("Invalid credentials")
    ELSE IF userExist.status = DEACTIVATED
         THEN BadRequestException("User is Deactivated")
    ELSE IF ~compare(dto.password, userExist.password)
         THEN BadRequestException("Invalid credentials")
    ELSE Ok(userExist)

signinCheck(userExist, dto) ==
    IF userExist = Null THEN BadRequestException("User not found")
    ELSE IF userExist.status = DEACTIVATED
         THEN BadRequestException("User is Deactivated")
    ELSE IF ~compare(dto.password, userExist.password)
         THEN BadRequestException("Invalid credentials")
    ELSE Ok(userExist)

\* changePassword, lines 99-110
changePasswordCheckMutNoCompare(userExist, dto) ==
    IF userExist = Null THEN BadRequestException("User not found")
    ELSE IF userExist.status = DEACTIVATED
         THEN BadRequestException("User is Deactivated")
    ELSE Ok(userExist)

changePasswordCheck(userExist, dto) ==
    IF userExist = Null THEN BadRequestException("User not found")
    ELSE IF userExist.status = DEACTIVATED
         THEN BadRequestException("User is Deactivated")
    ELSE IF ~compare(dto.currentPassword, userExist.password)
         THEN BadRequestException("Invalid credentials")
    ELSE Ok(userExist)

\* changePassword, lines 111-114: Object.assign(userExist, dto, {password, status})
changePasswordEntityMutKeepsOld(userExist, dto, salt) ==
    [userExist EXCEPT !.email = dto.email,
                      !.password = hash(dto.currentPassword, salt)]

changePasswordEntity(userExist, dto, salt) ==
    [userExist EXCEPT !.email = dto.email,
                      !.password = hash(dto.newPassword, salt)]

\* changePassword, lines 111-115: save resolves to the object it was given,
\* which Object.assign left with the DTO's own properties beside the columns
changePasswordSaved(entity, dto) ==
    entity @@ [currentPassword |-> dto.currentPassword,
               newPassword |-> dto.newPassword]

\* accessToken, lines 158-174
accessToken(user) ==
    LET secretKey == OrElse(secretEnv, FallbackSecret)
    IN  IF ~Truthy(secretKey)
        THEN InternalError("ACCESS_TOKEN_SECRET_KEY is not defined in the environment variables")
        ELSE Ok(sign(user.id, user.email, secretKey, OrElse(expireEnv, "1h")))

\* findOne, lines 200-204
findOne(id) ==
    IF id = 0 THEN InternalError("invalid user ID") ELSE Ok(findById(id))

\* update, lines 225-231: Object.assign(user, dto, {password, status})
updateEntity(user, dto) ==
    [user EXCEPT !.email = dto.email,
                 !.role = IF dto.role = Undefined THEN user.role ELSE dto.role.of,
                 !.status = IF dto.status = DtoAbsent THEN user.status
                            ELSE dto.status]

\* remove, lines 245-246: delete({id}) resolves to a DeleteResult object
removeResult(id) == Ok([kind |-> "boolean", b |-> TRUE])

\* ------------------------------------------------------------ requests
\* A request: method, path (its segments), query string ("" when there is
\* none), the Authorization header split at spaces (<<>> when absent) and
\* the validated body.
Word(w) == [kind |-> "word", w |-> w]
NoHeader == <<>>
NoBody == [kind |-> "none"]

\* header.split(' ')[1], undefined when there is no second part
SecondPart(auth) == IF Len(auth) >= 2 THEN auth[2] ELSE Undefined

\* !token for a header part
Falsy(part) == part = Undefined \/ part = Word("")

\* authHeader.startsWith('Bearer')
StartsWithBearer(auth) == Len(auth) >= 1 /\ auth[1] = Word("Bearer")

\* request.path and request.url: the url carries the query string
PathOf(req) == [path |-> req.path, query |-> ""]
UrlOf(req) == [path |-> req.path, query |-> req.query]

\* ['/api/v1/user/signin', '/api/v1/user/signup']
ignoredRoutes ==
    {[path |-> <<"api", "v1", "user", "signin">>, query |-> ""],
     [path |-> <<"api", "v1", "user", "signup">>, query |-> ""]}

Allow == Ok(Null)

\* ---------------------------------------------------------- JwtAuthGuard
\* JwtModule.register({secret: process.env.ACCESS_TOKEN_SECRET_KEY})
JwtServiceVerify(token) == verifyError(token, secretEnv)

JwtAuthGuardMutNoAllowlist(req) ==
    LET token == SecondPart(req.auth)
    IN  IF Falsy(token)
        THEN UnauthorizedException("Token not provided. Please log in.")
        ELSE IF JwtServiceVerify(token) = "ok" THEN Allow
        ELSE UnauthorizedException("Invalid or expired token.")

JwtAuthGuardMutChecksStore(req) ==
    IF PathOf(req) \in ignoredRoutes THEN Allow
    ELSE LET token == SecondPart(req.auth)
         IN  IF Falsy(token)
             THEN UnauthorizedException("Token not provided. Please log in.")
             ELSE IF JwtServiceVerify(token) # "ok"
                     \/ ~\E u \in users : u.id = token.id /\ u.status = ACTIVE
                  THEN UnauthorizedException("Invalid or expired token.")
                  ELSE Allow

JwtAuthGuard(req) ==
    IF PathOf(req) \in ignoredRoutes THEN Allow
    ELSE LET token == SecondPart(req.auth)
         IN  IF Falsy(token)
             THEN UnauthorizedException("Token not provided. Please log in.")
             ELSE IF JwtServiceVerify(token) = "ok" THEN Allow
             ELSE UnauthorizedException("Invalid or expired token.")

\* ------------------------------------------------------------ RolesGuard
\* roles: the handler's @Roles metadata, Undefined when it declares none;
\* user: request.user
RolesGuardMutAllOf(req, roles, user) ==
    IF UrlOf(req) \in ignoredRoutes THEN Allow
    ELSE IF roles = Undefined THEN Allow
    ELSE IF user = Undefined \/ user = Null
         THEN ForbiddenException("User not found")
    ELSE IF ~(\A role \in roles.of : role \in user.role)
         THEN ForbiddenException("You do not have the required role")
    ELSE Allow

RolesGuardMutNoUserCheck(req, roles, user) ==
    IF UrlOf(req) \in ignoredRoutes THEN Allow
    ELSE IF roles = Undefined THEN Allow
    ELSE IF user = Undefined \/ user = Null THEN Allow
    ELSE IF ~(\E role \in roles.of : role \in user.role)
         THEN ForbiddenException("You do not have the required role")
    ELSE Allow

RolesGuard(req, roles, user) ==
    IF UrlOf(req) \in ignoredRoutes THEN Allow
    ELSE IF roles = Undefined THEN Allow
    ELSE IF user = Undefined \/ user = Null
         THEN ForbiddenException("User not found")
    ELSE IF ~(\E role \in roles.of : role \in user.role)
         THEN ForbiddenException("You do not have the required role")
    ELSE Allow

\* ------------------------------------------------------ LoggerMiddleware
\* Gives how often next() ran, what it threw and req.currentUser afterwards.
LoggerMiddlewareMutRejects(req) ==
    IF req.auth = NoHeader \/ ~StartsWithBearer(req.auth)
    THEN [next |-> 1, thrown |-> Allow, currentUser |-> Undefined, user |-> Undefined]
    ELSE LET token == SecondPart(req.auth)
             secretKey == OrElse(secretEnv, FallbackSecret)
         IN  IF token = Undefined \/ verifyError(token, secretKey) # "ok"
             THEN [next |-> 0, thrown |-> UnauthorizedException("Invalid token"),
                   currentUser |-> Undefined, user |-> Undefined]
             ELSE LET found == findOne(token.id)
                  IN [next |-> 1, thrown |-> Allow,
                      currentUser |-> IF found.ok THEN found.value ELSE Undefined,
                      user |-> Undefined]

LoggerMiddleware(req) ==
    IF req.auth = NoHeader \/ ~StartsWithBearer(req.auth)
    THEN [next |-> 1, thrown |-> Allow, currentUser |-> Undefined, user |-> Undefined]
    ELSE LET token == SecondPart(req.auth)
             secretKey == OrElse(secretEnv, FallbackSecret)
         IN  IF token = Undefined \/ verifyError(token, secretKey) # "ok"
             THEN [next |-> 1, thrown |-> Allow, currentUser |-> Undefined,
                   user |-> Undefined]
             ELSE LET found == findOne(token.id)
                  IN [next |-> 1, thrown |-> Allow,
                      currentUser |-> IF found.ok THEN found.value ELSE Undefined,
                      user |-> Undefined]

\* ------------------------------------------------- CurrentUserMiddleware
\* Gives how often next() ran, what it threw and req.user afterwards.
CurrentUserMiddlewareMutPayloadOnly(req) ==
    LET reject(msg) == [next |-> 0, thrown |-> UnauthorizedException(msg),
                        currentUser |-> Undefined, user |-> Undefined]
    IN  IF req.auth = NoHeader THEN reject("Token not provided")
        ELSE LET token == SecondPart(req.auth)
                 err == IF token = Undefined THEN "JsonWebTokenError"
                        ELSE verifyError(token, secretEnv)
             IN  IF err = "TokenExpiredError" THEN reject("Token expired")
                 ELSE IF err # "ok" THEN reject("Invalid token")
                 ELSE [next |-> 1, thrown |-> Allow, currentUser |-> Undefined,
                       user |-> Row(token.id, token.email, Undefined, {}, ACTIVE)]

CurrentUserMiddleware(req) ==
    LET reject(msg) == [next |-> 0, thrown |-> UnauthorizedException(msg),
                        currentUser |-> Undefined, user |-> Undefined]
    IN  IF req.auth = NoHeader THEN reject("Token not provided")
        ELSE LET token == SecondPart(req.auth)
                 err == IF token = Undefined THEN "JsonWebTokenError"
                        ELSE verifyError(token, secretEnv)
             IN  IF err = "TokenExpiredError" THEN reject("Token expired")
                 ELSE IF err # "ok" THEN reject("Invalid token")
                 ELSE LET found == findOne(token.id)
                      IN  IF ~found.ok \/ found.value = Null
                          THEN reject("User not found")
                          ELSE [next |-> 1, thrown |-> Allow,
                                currentUser |-> Undefined,
                                user |-> found.value]

\* --------------------------------------------------------------- routing
ApiUser == <<"api", "v1", "user">>
ApiBook == <<"api", "v1", "book">>

\* The route handler Express picks: the first registered route that matches,
\* in the controllers' declaration order (so GET user/me is taken by
\* @Get(':id'), declared before @Get('me')).
Route(method, path) ==
    IF Len(path) = 3 /\ path = ApiUser /\ method = "GET" THEN "user.findAll"
    ELSE IF Len(path) = 4 /\ SubSeq(path, 1, 3) = ApiUser
    THEN IF method = "POST" /\ path[4] = "signup" THEN "user.signup"
         ELSE IF method = "POST" /\ path[4] = "signin" THEN "user.signin"
         ELSE IF method = "POST" /\ path[4] = "change-password"
              THEN "user.changePassword"
         ELSE IF method = "GET" THEN "user.findOne"
         ELSE IF method = "PATCH" THEN "user.update"
         ELSE IF method = "DELETE" THEN "user.remove"
         ELSE "none"
    ELSE IF Len(path) = 3 /\ path = ApiBook
    THEN IF method = "POST" THEN "book.create"
         ELSE IF method = "GET" THEN "book.findAll"
         ELSE "none"
    ELSE IF Len(path) = 4 /\ SubSeq(path, 1, 3) = ApiBook
    THEN IF method = "GET" /\ path[4] = "search" THEN "book.searchBook"
         ELSE IF method = "GET" THEN "book.findOne"
         ELSE IF method = "PATCH" THEN "book.update"
         ELSE IF method = "DELETE" THEN "book.remove"
         ELSE "none"
    ELSE "none"

\* @UseGuards(...) of each handler
HandlerGuards(h) ==
    IF h = "user.findAll" THEN <<"RolesGuard">>
    ELSE IF h \in {"user.findOne", "user.update", "user.remove", "user.getProfile",
                   "book.create", "book.findAll", "book.searchBook",
                   "book.findOne", "book.update", "book.remove"}
         THEN <<"JwtAuthGuard">>
    ELSE <<>>

\* @Roles(...) of each handler
HandlerRoles(h) ==
    IF h \in {"user.findAll", "user.remove", "book.create", "book.update",
              "book.remove"}
    THEN Roles({"Admin"})
    ELSE IF h = "none" THEN Undefined
    ELSE Roles({"User", "Admin"})

\* ------------------------------------------------------------- AppModule
Wirings == {"Logger", "CurrentUser"}

\* .exclude('user/signin', 'user/signup') of the CurrentUserMiddleware wiring
Excluded(req) ==
    req.path \in {ApiUser \o <<"signin">>, ApiUser \o <<"signup">>}

Passed == [next |-> 1, thrown |-> Allow, currentUser |-> Undefined, user |-> Undefined]

\* the middleware AppModule.configure applies
Middleware(req) ==
    IF wiring = "Logger" THEN LoggerMiddleware(req)
    ELSE IF Excluded(req) THEN Passed
    ELSE CurrentUserMiddleware(req)

\* the guards in the order Nest runs them: global (APP_GUARD), then the handler's
GuardChain(h) ==
    (IF wiring = "CurrentUser" THEN <<"RolesGuard">> ELSE <<>>) \o HandlerGuards(h)

RunGuard(g, req, h, mw) ==
    IF g = "JwtAuthGuard" THEN JwtAuthGuard(req)
    ELSE RolesGuard(req, HandlerRoles(h), mw.user)

RECURSIVE RunGuards(_, _, _, _)
RunGuards(gs, req, h, mw) ==
    IF gs = <<>> THEN Allow
    ELSE LET r == RunGuard(Head(gs), req, h, mw)
         IN IF r.ok THEN RunGuards(Tail(gs), req, h, mw) ELSE r

\* What happens to a request before its handler: the rejection, or Allow
\* when the handler is to run.
Admission(req) ==
    LET mw == Middleware(req)
        h == Route(req.method, req.path)
    IN  IF ~mw.thrown.ok THEN mw.thrown
        ELSE IF h = "none" THEN NotFoundException("Cannot " \o req.method)
        ELSE RunGuards(GuardChain(h), req, h, mw)

\* ------------------------------------------- UserService, call by call
\* Each gives the result and the table, id sequence afterwards.
Same(result) == [result |-> result, users |-> users, nextId |-> nextId]

signup(dto, salt) ==
    LET check == signupCheck(findUserByEmail(dto.email))
        saved == save(signupEntity(dto, salt))
    IN  IF ~check.ok THEN Same(check)
        ELSE [result |-> IF saved.ok THEN Ok(saved.entity)
                         ELSE InternalError("QueryFailedError"),
              users |-> saved.users, nextId |-> nextId + 1]

signin(dto) == signinCheck(findUserByEmail(dto.email), dto)

changePassword(dto, salt) ==
    LET check == changePasswordCheck(findUserByEmail(dto.email), dto)
        saved == save(changePasswordEntity(check.value, dto, salt))
    IN  IF ~check.ok THEN Same(check)
        ELSE [result |-> IF saved.ok THEN Ok(changePasswordSaved(saved.entity, dto))
                         ELSE InternalError("QueryFailedError"),
              users |-> saved.users, nextId |-> nextId]

findAll == Ok([kind |-> "list", of |-> {findById(u.id) : u \in users}])

update(id, dto) ==
    LET user == findById(id)
        saved == save(updateEntity(user, dto))
    IN  IF user = Null THEN Same(NotFoundException("User not found"))
        ELSE [result |-> IF saved.ok THEN Ok(saved.entity)
                         ELSE InternalError("QueryFailedError"),
              users |-> saved.users, nextId |-> nextId]

remove(id) ==
    [result |-> removeResult(id), users |-> {u \in users : u.id # id},
     nextId |-> nextId]

\* @Param('id'): the path segment as a number, 0 for NaN
ParamId(seg) ==
    IF seg = "1" THEN 1 ELSE IF seg = "2" THEN 2 ELSE IF seg = "3" THEN 3
    ELSE IF seg = "4" THEN 4 ELSE 0

\* --------------------------------------------------- controller handlers
\* UserController.signin, lines 63-65
signinHandler(dto) ==
    LET user == signin(dto)
        accessTokenR == accessToken(user.value)
    IN  IF ~user.ok THEN user
        ELSE IF ~accessTokenR.ok THEN accessTokenR
        ELSE Ok([kind |-> "signin", accessToken |-> accessTokenR.value,
                 user |-> user.value])

\* UserController.findOne, lines 124-128
findOneHandler(mw) ==
    IF mw.user = Undefined \/ mw.user = Null
    THEN UnauthorizedException("User ID not found in request")
    ELSE findOne(mw.user.id)

\* the handler's result and the table afterwards
Handle(h, req, mw, salt) ==
    IF h = "user.signup" THEN signup(req.body, salt)
    ELSE IF h = "user.signin" THEN Same(signinHandler(req.body))
    ELSE IF h = "user.changePassword" THEN changePassword(req.body, salt)
    ELSE IF h = "user.findAll" THEN Same(findAll)
    ELSE IF h = "user.findOne" THEN Same(findOneHandler(mw))
    ELSE IF h = "user.update" THEN update(ParamId(req.path[4]), req.body)
    ELSE IF h = "user.remove" THEN remove(ParamId(req.path[4]))
    ELSE Same(Ok(Null))

\* the token a handler result hands to the client, if any
Issued(result) ==
    IF result.ok /\ result.value # Null /\ result.value.kind = "signin"
    THEN {result.value.accessToken} ELSE {}

\* ------------------------------------------------------------ the state
Idle == [op |-> "idle"]
NoResp == [kind |-> "none"]

\* process start: the environment is read once, nothing is stored yet
Init ==
    /\ secretEnv \in SecretEnvValues
    /\ expireEnv \in ExpireEnvValues
    /\ wiring \in Wirings
    /\ users = {}
    /\ nextId = 1
    /\ now = 0
    /\ tokens = {}
    /\ procs = [s \in 1..MaxProcs |-> Idle]
    /\ resp = NoResp

\* the same, with the checked-in AppModule (src/app.module.ts)
InitLogger == Init /\ wiring = "Logger"

\* time passes between calls
Tick ==
    /\ resp = NoResp
    /\ now < MaxClock
    /\ now' = now + 1
    /\ UNCHANGED <<secretEnv, expireEnv, wiring, users, nextId, tokens, procs, resp>>

\* the caller takes the response; the next call may start
Return ==
    /\ resp # NoResp
    /\ resp' = NoResp
    /\ UNCHANGED <<secretEnv, expireEnv, wiring, users, nextId, now, tokens, procs>>

\* ------------------------------------------ the requests clients send
\* tokens a client can make up: signed with a secret of its own, or with the
\* fallback literal of the source
ForgedTokens ==
    {[kind |-> "jwt", id |-> 1, email |-> "a@x.com", iat |-> 0,
      exp |-> MaxClock + 2, key |-> k] : k \in {"k2", FallbackSecret}}

AuthHeaders ==
    {NoHeader, <<Word("Bearer")>>, <<Word("Bearer"), Word("")>>,
     <<Word("Bearer"), Garbage>>}
        \cup {<<Word("Bearer"), t>> : t \in tokens \cup ForgedTokens}
        \cup {<<Word("Basic"), t>> : t \in tokens}

Req(method, path, query, auth, body) ==
    [method |-> method, path |-> path, query |-> query, auth |-> auth,
     body |-> body]

\* ------------------------------------------------- calls, one at a time
Call(op, arg, result) ==
    [kind |-> "call", op |-> op, arg |-> arg, result |-> result, at |-> now]

Frame == UNCHANGED <<secretEnv, expireEnv, wiring, now, procs>>

CallJwtAuthGuard(req) ==
    /\ resp = NoResp
    /\ resp' = Call("JwtAuthGuard", req, JwtAuthGuard(req))
    /\ UNCHANGED <<users, nextId, tokens>> /\ Frame

CallRolesGuard(req, roles, user) ==
    /\ resp = NoResp
    /\ resp' = Call("RolesGuard", [req |-> req, roles |-> roles, user |-> user],
                    RolesGuard(req, roles, user))
    /\ UNCHANGED <<users, nextId, tokens>> /\ Frame

CallLoggerMiddleware(req) ==
    /\ resp = NoResp
    /\ resp' = Call("LoggerMiddleware", req, LoggerMiddleware(req))
    /\ UNCHANGED <<users, nextId, tokens>> /\ Frame

CallCurrentUserMiddleware(req) ==
    /\ resp = NoResp
    /\ resp' = Call("CurrentUserMiddleware", req, CurrentUserMiddleware(req))
    /\ UNCHANGED <<users, nextId, tokens>> /\ Frame

CallAccessToken(user) ==
    LET r == accessToken(user)
        issued == IF r.ok THEN {r.value} ELSE {}
    IN  /\ resp = NoResp
        /\ Cardinality(tokens \cup issued) <= MaxTokens
        /\ tokens' = tokens \cup issued
        /\ resp' = Call("accessToken", user, r)
        /\ UNCHANGED <<users, nextId>> /\ Frame

CallSignup(dto, salt) ==
    LET out == signup(dto, salt)
    IN  /\ resp = NoResp
        /\ out.nextId <= MaxUsers + 1
        /\ users' = out.users
        /\ nextId' = out.nextId
        /\ resp' = Call("signup", dto, out.result)
        /\ UNCHANGED tokens /\ Frame

CallSignin(dto) ==
    /\ resp = NoResp
    /\ resp' = Call("signin", dto, signin(dto))
    /\ UNCHANGED <<users, nextId, tokens>> /\ Frame

CallChangePassword(dto, salt) ==
    LET out == changePassword(dto, salt)
    IN  /\ resp = NoResp
        /\ users' = out.users
        /\ resp' = Call("changePassword", dto, out.result)
        /\ UNCHANGED <<nextId, tokens>> /\ Frame

CallUpdate(id, dto) ==
    LET out == update(id, dto)
    IN  /\ resp = NoResp
        /\ users' = out.users
        /\ resp' = Call("update", [id |-> id, dto |-> dto], out.result)
        /\ UNCHANGED <<nextId, tokens>> /\ Frame

CallRemove(id) ==
    LET out == remove(id)
    IN  /\ resp = NoResp
        /\ users' = out.users
        /\ resp' = Call("remove", id, out.result)
        /\ UNCHANGED <<nextId, tokens>> /\ Frame

\* --------------------------------------------- tokens and their verifiers
\* Users are signed up and removed, tokens issued, the clock runs, and the
\* guard and the two identity resolvers are handed requests.
SignupPath == ApiUser \o <<"signup">>
SigninPath == ApiUser \o <<"signin">>

TokenSignupDtos ==
    [email : Emails, password : {"password1"}, role : {{"User"}},
     status : {DtoAbsent}]

TokenRequests ==
    {Req("GET", path, "", a, NoBody) :
        path \in {SigninPath, SignupPath, ApiBook}, a \in AuthHeaders}

TokenSignup == \E dto \in TokenSignupDtos, salt \in Salts : CallSignup(dto, salt)
TokenIssue == \E u \in users : CallAccessToken(u)
TokenRemove == \E u \in users : CallRemove(u.id)
TokenGuard == \E req \in TokenRequests : CallJwtAuthGuard(req)
TokenLogger == \E req \in TokenRequests : CallLoggerMiddleware(req)
TokenCurrentUser == \E req \in TokenRequests : CallCurrentUserMiddleware(req)

NextToken ==
    \/ Tick
    \/ Return
    \/ TokenSignup
    \/ TokenIssue
    \/ TokenRemove
    \/ TokenGuard
    \/ TokenLogger
    \/ TokenCurrentUser

SpecToken == InitLogger /\ [][NextToken]_vars

\* ------------------------------------------------------- RolesGuard alone
\* Users of every role set are signed up; the guard is handed requests with
\* each declared role set and each stored identity (or none) attached.
RoleSets == SUBSET RoleTypes

RolesSignupDtos ==
    [email : Emails, password : {"password1"}, role : RoleSets,
     status : {DtoAbsent}]

RolesRequests ==
    {Req("GET", path, q, NoHeader, NoBody) :
        path \in {SigninPath, SignupPath, ApiUser, ApiBook}, q \in {"", "x=1"}}

DeclaredRoles == {Undefined, Roles({"Admin"}), Roles({"User", "Admin"})}

RolesSignup == \E dto \in RolesSignupDtos, salt \in Salts : CallSignup(dto, salt)
RolesCheck ==
    \E req \in RolesRequests, roles \in DeclaredRoles,
       user \in {Undefined} \cup {findById(u.id) : u \in users} :
        CallRolesGuard(req, roles, user)

NextRoles == Return \/ RolesSignup \/ RolesCheck

InitRoles == InitLogger /\ secretEnv = "k1" /\ expireEnv = EnvUnset

SpecRoles == InitRoles /\ [][NextRoles]_vars

\* ------------------------------------------------------ UserService alone
ServiceSignupDtos ==
    [email : Emails, password : Passwords, role : {{"User"}},
     status : {DtoAbsent, DEACTIVATED}]
ServiceSigninDtos == [email : Emails, password : Passwords]
ServiceChangePasswordDtos ==
    [email : Emails, currentPassword : Passwords, newPassword : Passwords]
ServiceEditDtos ==
    [email : Emails, role : {Undefined}, status : {DtoAbsent} \cup Status]

ServiceSignup == \E dto \in ServiceSignupDtos, salt \in Salts : CallSignup(dto, salt)
ServiceSignin == \E dto \in ServiceSigninDtos : CallSignin(dto)
ServiceChangePassword ==
    \E dto \in ServiceChangePasswordDtos, salt \in Salts : CallChangePassword(dto, salt)
ServiceUpdate == \E id \in 1..MaxUsers, dto \in ServiceEditDtos : CallUpdate(id, dto)
ServiceRemove == \E id \in 1..MaxUsers : CallRemove(id)

NextService ==
    \/ Return
    \/ ServiceSignup
    \/ ServiceSignin
    \/ ServiceChangePassword
    \/ ServiceUpdate
    \/ ServiceRemove

SpecService == InitRoles /\ [][NextService]_vars

\* ------------------------------------------- the assembled application
HttpSignupDtos ==
    [email : Emails, password : {"password1"}, role : {{"User"}, {"Admin"}},
     status : {DtoAbsent}]
HttpSigninDtos == [email : Emails, password : {"password1"}]
HttpChangePasswordDtos ==
    [email : {"a@x.com"}, currentPassword : {"password1"},
     newPassword : {"password2"}]
HttpEditDtos ==
    [email : {"a@x.com"}, role : {Undefined, Roles({"Admin"})},
     status : {DtoAbsent, DEACTIVATED}]

HttpAuthHeaders ==
    {NoHeader, <<Word("Bearer"), Garbage>>}
        \cup {<<Word("Bearer"), t>> : t \in tokens}

HttpRequests ==
    LET with(method, path, bodies) ==
            {Req(method, path, "", a, b) : a \in HttpAuthHeaders, b \in bodies}
    IN  with("POST", SignupPath, HttpSignupDtos)
        \cup with("POST", SigninPath, HttpSigninDtos)
        \cup with("POST", ApiUser \o <<"change-password">>, HttpChangePasswordDtos)
        \cup with("GET", ApiUser, {NoBody})
        \cup with("GET", ApiUser \o <<"me">>, {NoBody})
        \cup with("PATCH", ApiUser \o <<"1">>, HttpEditDtos)
        \cup with("DELETE", ApiUser \o <<"1">>, {NoBody})
        \cup with("POST", ApiBook, {NoBody})
        \cup with("GET", ApiBook, {NoBody})

\* One request, from the middleware to the handler's response.
Http(req, salt) ==
    LET mw == Middleware(req)
        h == Route(req.method, req.path)
        adm == Admission(req)
        out == Handle(h, req, mw, salt)
        answer(executed, result) ==
            [kind |-> "http", req |-> req, handler |-> h,
             executed |-> executed, result |-> result, at |-> now]
    IN  /\ resp = NoResp
        /\ IF ~adm.ok
           THEN /\ resp' = answer(FALSE, adm)
                /\ UNCHANGED <<users, nextId, tokens>>
           ELSE /\ out.nextId <= MaxUsers + 1
                /\ Cardinality(tokens \cup Issued(out.result)) <= MaxTokens
                /\ users' = out.users
                /\ nextId' = out.nextId
                /\ tokens' = tokens \cup Issued(out.result)
                /\ resp' = answer(TRUE, out.result)
        /\ Frame

Request == \E req \in HttpRequests, salt \in Salts : Http(req, salt)

Next == Tick \/ Return \/ Request

InitApp == Init /\ expireEnv = EnvUnset

Spec == InitApp /\ [][Next]_vars

\* ------------------------------------- roles edited under issued tokens
\* The CurrentUserMiddleware wiring: Admins sign up and in, roles are edited
\* through PATCH user/1, and Admin-only routes are asked for with the tokens.
ReloadSignupDtos ==
    [email : Emails, password : {"password1"}, role : {{"Admin"}}, status : {DtoAbsent}]
ReloadSigninDtos == [email : Emails, password : {"password1"}]
ReloadEditDtos ==
    [email : {"a@x.com"}, role : {Roles({"User"}), Roles({"Admin"})},
     status : {DtoAbsent}]

ReloadRequests ==
    LET bearing(method, path, bodies) ==
            {Req(method, path, "", <<Word("Bearer"), t>>, b) : t \in tokens, b \in bodies}
        bare(method, path, bodies) ==
            {Req(method, path, "", NoHeader, b) : b \in bodies}
    IN  bare("POST", SignupPath, ReloadSignupDtos)
        \cup bare("POST", SigninPath, ReloadSigninDtos)
        \cup bearing("PATCH", ApiUser \o <<"1">>, ReloadEditDtos)
        \cup bearing("POST", ApiBook, {NoBody})
        \cup bearing("GET", ApiUser, {NoBody})

ReloadRequest == \E req \in ReloadRequests, salt \in Salts : Http(req, salt)

NextReload == Tick \/ Return \/ ReloadRequest

InitReload == InitApp /\ wiring = "CurrentUser" /\ secretEnv = "k1"

SpecReload == InitReload /\ [][NextReload]_vars

\* ------------------------------------------------- concurrent requests
\* UserService calls in flight at once; each await that reaches the database
\* is a step of its own.
ConcSignupDtos ==
    [email : Emails, password : {"password1"}, role : {{"User"}},
     status : {DtoAbsent}]
ConcSigninDtos == [email : Emails, password : {"password1"}]
ConcEditDtos == [email : Emails, role : {Undefined}, status : {DtoAbsent, DEACTIVATED}]

ConcFrame == UNCHANGED <<secretEnv, expireEnv, wiring, now, resp>>

Begin(s, op, arg) ==
    /\ procs[s] = Idle
    /\ \A r \in 1..(s - 1) : procs[r] # Idle
    /\ procs' = [procs EXCEPT ![s] = [op |-> op, pc |-> "find", arg |-> arg,
                                      local |-> Null]]
    /\ UNCHANGED <<users, nextId, tokens>> /\ ConcFrame

StartSignup == \E s \in 1..MaxProcs, dto \in ConcSignupDtos : Begin(s, "signup", dto)
StartSignin == \E s \in 1..MaxProcs, dto \in ConcSigninDtos : Begin(s, "signin", dto)
StartUpdate ==
    \E s \in 1..MaxProcs, id \in 1..MaxUsers, dto \in ConcEditDtos :
        Begin(s, "update", [id |-> id, dto |-> dto])

Running(s, op, pc) == procs[s] # Idle /\ procs[s].op = op /\ procs[s].pc = pc

\* signup, line 40-42
SignupFind ==
    \E s \in 1..MaxProcs :
        /\ Running(s, "signup", "find")
        /\ LET userExist == findUserByEmail(procs[s].arg.email)
           IN procs' = [procs EXCEPT ![s] =
                  IF signupCheck(userExist).ok
                  THEN [procs[s] EXCEPT !.pc = "save"]
                  ELSE Idle]
        /\ UNCHANGED <<users, nextId, tokens>> /\ ConcFrame

\* signup, lines 44-49
SignupSave ==
    \E s \in 1..MaxProcs, salt \in Salts :
        /\ Running(s, "signup", "save")
        /\ nextId <= MaxUsers
        /\ users' = save(signupEntity(procs[s].arg, salt)).users
        /\ nextId' = nextId + 1
        /\ procs' = [procs EXCEPT ![s] = Idle]
        /\ UNCHANGED tokens /\ ConcFrame

\* signin, line 66
SigninFind ==
    \E s \in 1..MaxProcs :
        /\ Running(s, "signin", "find")
        /\ procs' = [procs EXCEPT ![s] =
               [procs[s] EXCEPT !.pc = "check",
                                !.local = findUserByEmail(procs[s].arg.email)]]
        /\ UNCHANGED <<users, nextId, tokens>> /\ ConcFrame

\* signin, lines 67-79, then UserController.signin, line 64
SigninIssue ==
    \E s \in 1..MaxProcs :
        /\ Running(s, "signin", "check")
        /\ LET user == signinCheck(procs[s].local, procs[s].arg)
               issued == IF user.ok /\ accessToken(user.value).ok
                         THEN {accessToken(user.value).value} ELSE {}
           IN /\ Cardinality(tokens \cup issued) <= MaxTokens
              /\ tokens' = tokens \cup issued
        /\ procs' = [procs EXCEPT ![s] = Idle]
        /\ UNCHANGED <<users, nextId>> /\ ConcFrame

\* update, lines 221-227
UpdateFind ==
    \E s \in 1..MaxProcs :
        /\ Running(s, "update", "find")
        /\ LET user == findById(procs[s].arg.id)
           IN procs' = [procs EXCEPT ![s] =
                  IF user = Null THEN Idle
                  ELSE [procs[s] EXCEPT !.pc = "save", !.local = user]]
        /\ UNCHANGED <<users, nextId, tokens>> /\ ConcFrame

\* update, lines 228-232
UpdateSave ==
    \E s \in 1..MaxProcs :
        /\ Running(s, "update", "save")
        /\ users' = save(updateEntity(procs[s].local, procs[s].arg.dto)).users
        /\ procs' = [procs EXCEPT ![s] = Idle]
        /\ UNCHANGED <<nextId, tokens>> /\ ConcFrame

NextConc ==
    \/ StartSignup
    \/ StartSignin
    \/ StartUpdate
    \/ SignupFind
    \/ SignupSave
    \/ SigninFind
    \/ SigninIssue
    \/ UpdateFind
    \/ UpdateSave

SpecConc == InitRoles /\ [][NextConc]_vars

\* --------------------------------------------- tokens against the store
\* Tokens are issued, their subjects deleted, deactivated or given a new
\* password, the clock runs, and the guard is handed the tokens.
RevokeRequests == {Req("GET", ApiBook, "", <<Word("Bearer"), t>>, NoBody) : t \in tokens}

RevokeSignup == \E dto \in TokenSignupDtos, salt \in Salts : CallSignup(dto, salt)
RevokeIssue == \E u \in users : CallAccessToken(u)
RevokeRemove == \E u \in users : CallRemove(u.id)
RevokeDeactivate ==
    \E u \in users :
        CallUpdate(u.id, [email |-> u.email, role |-> Undefined, status |-> DEACTIVATED])
RevokeChangePassword ==
    \E u \in users, salt \in Salts :
        CallChangePassword([email |-> u.email, currentPassword |-> "password1",
                            newPassword |-> "password2"], salt)
RevokeGuard == \E req \in RevokeRequests : CallJwtAuthGuard(req)

NextRevoke ==
    \/ Tick
    \/ Return
    \/ RevokeSignup
    \/ RevokeIssue
    \/ RevokeRemove
    \/ RevokeDeactivate
    \/ RevokeChangePassword
    \/ RevokeGuard

SpecRevoke == InitLogger /\ [][NextRevoke]_vars

\* Signups racing each other and updates that change an email.
RaceEditDtos == [email : Emails, role : {Undefined}, status : {DtoAbsent}]

StartEmailUpdate ==
    \E s \in 1..MaxProcs, id \in 1..MaxUsers, dto \in RaceEditDtos :
        Begin(s, "update", [id |-> id, dto |-> dto])

NextRace ==
    \/ StartSignup
    \/ StartEmailUpdate
    \/ SignupFind
    \/ SignupSave
    \/ UpdateFind
    \/ UpdateSave

SpecRace == InitRoles /\ [][NextRace]_vars

\* ================================================================ claims
IsCall(op) == resp.kind = "call" /\ resp.op = op

\* the token a request bears, Undefined when it bears none
Bearing(req) == SecondPart(req.auth)
BearsJwt(req) == Bearing(req) # Undefined /\ Bearing(req).kind = "jwt"

PublicPaths == {SigninPath, SignupPath}

C2_JwtAuthGuard ==
    IsCall("JwtAuthGuard") =>
        LET req == resp.arg
            token == Bearing(req)
            verifies == /\ BearsJwt(req)
                        /\ secretEnv # EnvUnset
                        /\ token.key = secretEnv
                        /\ resp.at < token.exp
        IN  IF req.path \in PublicPaths THEN resp.result.ok
            ELSE /\ resp.result.ok <=> verifies
                 /\ ~resp.result.ok => resp.result.http = 401

\* the guard let a signin request with a forged token through
C2_Witness ==
    /\ IsCall("JwtAuthGuard")
    /\ resp.arg.path = SigninPath
    /\ BearsJwt(resp.arg)
    /\ Bearing(resp.arg).key = "k2"
    /\ resp.result.ok

\* a request to a guarded path bearing `token` after "Bearer"
BearerRequest(token) == Req("GET", ApiBook, "", <<Word("Bearer"), token>>, NoBody)

\* C4: whatever ACCESS_TOKEN_SECRET_KEY is (set or unset), a token that
\* accessToken returned passes JwtAuthGuard when presented at once.
C4_IssuedTokenVerifies ==
    (IsCall("accessToken") /\ resp.result.ok)
    => JwtAuthGuard(BearerRequest(resp.result.value)).ok

\* C5: once the clock has passed a token's exp (iat + ACCESS_TOKEN_EXPIRE_TIME,
\* one hour when unset) the token is never accepted: JwtAuthGuard answers 401
\* to every request bearing it whose path is outside the guard's allowlist,
\* and neither identity resolver attaches an identity for it.
C5_ExpiredNeverAccepted ==
    /\ \A t \in tokens : t.exp = t.iat + (IF expireEnv = EnvUnset THEN 1 ELSE 2)
    /\ (/\ resp.kind = "call"
        /\ resp.op \in {"JwtAuthGuard", "LoggerMiddleware", "CurrentUserMiddleware"}
        /\ BearsJwt(resp.arg)
        /\ resp.at > Bearing(resp.arg).exp)
       => /\ (resp.op = "JwtAuthGuard" /\ resp.arg.path \notin PublicPaths)
                => (~resp.result.ok /\ resp.result.http = 401)
          /\ resp.op = "LoggerMiddleware"
                => (resp.result.currentUser = Undefined /\ resp.result.user = Undefined)
          /\ resp.op = "CurrentUserMiddleware"
                => (resp.result.user = Undefined /\ resp.result.next = 0)

\* C5 as stated: once the clock has passed a token's exp, JwtAuthGuard
\* answers 401 to every request bearing it, whatever the path, and neither
\* identity resolver attaches an identity for it.
C5_ExpiredRejectedOnEveryPath ==
    /\ \A t \in tokens : t.exp = t.iat + (IF expireEnv = EnvUnset THEN 1 ELSE 2)
    /\ (/\ resp.kind = "call"
        /\ resp.op \in {"JwtAuthGuard", "LoggerMiddleware", "CurrentUserMiddleware"}
        /\ BearsJwt(resp.arg)
        /\ resp.at > Bearing(resp.arg).exp)
       => /\ resp.op = "JwtAuthGuard"
                => (~resp.result.ok /\ resp.result.http = 401)
          /\ resp.op = "LoggerMiddleware"
                => (resp.result.currentUser = Undefined /\ resp.result.user = Undefined)
          /\ resp.op = "CurrentUserMiddleware"
                => (resp.result.user = Undefined /\ resp.result.next = 0)

\* an issued token of a stored user, presented after its expiry with the
\* right secret configured, was refused by the guard
C5_Witness ==
    /\ IsCall("JwtAuthGuard")
    /\ resp.arg.path = ApiBook
    /\ Bearing(resp.arg) \in tokens
    /\ Bearing(resp.arg).key = secretEnv
    /\ resp.at > Bearing(resp.arg).exp
    /\ \E u \in users : u.id = Bearing(resp.arg).id
    /\ resp.result.http = 401

\* C6: a token signed with a secret other than the verifier's never verifies:
\* JwtAuthGuard (which verifies with ACCESS_TOKEN_SECRET_KEY) answers 401 on
\* every path outside its allowlist, and LoggerMiddleware (which verifies with that key or the
\* fallback literal) attaches no identity.
C6_WrongSecretFails ==
    /\ (/\ IsCall("JwtAuthGuard")
        /\ BearsJwt(resp.arg)
        /\ Bearing(resp.arg).key # secretEnv
        /\ resp.arg.path \notin PublicPaths)
       => (~resp.result.ok /\ resp.result.http = 401)
    /\ (/\ IsCall("LoggerMiddleware")
        /\ BearsJwt(resp.arg)
        /\ Bearing(resp.arg).key # OrElse(secretEnv, FallbackSecret))
       => (resp.result.currentUser = Undefined /\ resp.result.next = 1)

\* C6 as stated: a token signed with a secret other than the verifier's is
\* answered 401 by JwtAuthGuard, whatever the path of the request, and
\* LoggerMiddleware attaches no identity.
C6_WrongSecretRejectedOnEveryPath ==
    /\ (/\ IsCall("JwtAuthGuard")
        /\ BearsJwt(resp.arg)
        /\ Bearing(resp.arg).key # secretEnv)
       => (~resp.result.ok /\ resp.result.http = 401)
    /\ (/\ IsCall("LoggerMiddleware")
        /\ BearsJwt(resp.arg)
        /\ Bearing(resp.arg).key # OrElse(secretEnv, FallbackSecret))
       => (resp.result.currentUser = Undefined /\ resp.result.next = 1)

\* LoggerMiddleware passed on, without identity, an unexpired token for the
\* stored user 1 signed with another secret
C6_Witness ==
    /\ IsCall("LoggerMiddleware")
    /\ BearsJwt(resp.arg)
    /\ resp.arg.auth[1] = Word("Bearer")
    /\ Bearing(resp.arg).key = "k2"
    /\ secretEnv = "k1"
    /\ resp.at < Bearing(resp.arg).exp
    /\ \E u \in users : u.id = Bearing(resp.arg).id
    /\ resp.result.currentUser = Undefined

\* C7: accessToken fails, and returns no token, whenever
\* ACCESS_TOKEN_SECRET_KEY is not defined.
C7_NoSecretNoToken ==
    (IsCall("accessToken") /\ secretEnv = EnvUnset) => ~resp.result.ok

\* C9: signin for an email whose stored identity is Deactivated fails with
\* 'User is Deactivated' whatever the password, and returns no identity.
C9_DeactivatedSignin ==
    (/\ IsCall("signin")
     /\ \E u \in users : u.email = resp.arg.email /\ u.status = DEACTIVATED)
    => resp.result = BadRequestException("User is Deactivated")

\* signin with the right password was refused for a Deactivated identity
C9_Witness ==
    /\ IsCall("signin")
    /\ \E u \in users : /\ u.email = resp.arg.email
                        /\ u.status = DEACTIVATED
                        /\ compare(resp.arg.password, u.password)
    /\ resp.result.error = "User is Deactivated"

\* C10: signup with an email a stored identity already holds fails with
\* BadRequest 'This email is already created' and leaves the table (and the
\* id sequence) as they were, however many signups succeeded before.
C10_DuplicateSignup ==
    [][(/\ resp = NoResp
        /\ resp'.kind = "call"
        /\ resp'.op = "signup"
        /\ \E u \in users : u.email = resp'.arg.email)
       => /\ resp'.result = BadRequestException("This email is already created")
          /\ users' = users
          /\ nextId' = nextId]_vars

\* a duplicate signup was refused after two signups had succeeded
C10_Witness ==
    /\ IsCall("signup")
    /\ resp.result.error = "This email is already created"
    /\ Cardinality(users) = 2

\* C11: in every interleaving of concurrent signup requests and of update
\* requests that change an email, no two stored identities hold the same
\* email.
C11_EmailUnique ==
    \A u \in users, v \in users : u.email = v.email => u.id = v.id

\* two signups with one email both passed the existence check, one has
\* inserted its row and the other is about to
C11_Witness ==
    \E s \in 1..MaxProcs :
        /\ Running(s, "signup", "save")
        /\ \E u \in users : u.email = procs[s].arg.email

\* C12: after any sequence of signup, changePassword and update, the stored
\* password of every identity is an output of the hash function, never a
\* plaintext a caller supplied and never missing.
C12_StoredPasswordIsHash ==
    \A u \in users :
        /\ u.password # Undefined
        /\ u.password.kind = "bcrypt"
        /\ \E p \in Passwords, salt \in Salts : u.password = hash(p, salt)

\* an update, which carries no password, went through and the identity
\* still holds the hash it had
C12_Witness ==
    /\ IsCall("update")
    /\ resp.result.ok
    /\ \E u \in users : /\ u.id = resp.arg.id
                        /\ u.password = hash("password2", 1)
                        /\ u.status = DEACTIVATED

\* C13: the identity a successful signup returns to the caller does not
\* include the stored password hash.
C13_SignupHidesHash ==
    (/\ resp.kind = "http"
     /\ resp.handler = "user.signup"
     /\ resp.executed
     /\ resp.result.ok)
    => resp.result.value.password = Undefined

UnknownEmailSignins == {d \in ServiceSigninDtos : findUserByEmail(d.email) = Null}
WrongPasswordSignins ==
    {d \in ServiceSigninDtos :
        \E u \in users : /\ u.email = d.email
                         /\ u.status = ACTIVE
                         /\ ~compare(d.password, u.password)}

\* C15 as stated: the failure of signin for an email with no stored identity
\* is identical, in error kind and message, to its failure for an existing
\* Active identity with a wrong password.
C15_SigninFailuresIdentical ==
    \A d1 \in UnknownEmailSignins, d2 \in WrongPasswordSignins :
        signin(d1) = signin(d2)

\* C15: signin fails with the same error kind (BadRequest, 400) for an email
\* with no stored identity and for an Active identity with a wrong password,
\* but with the messages 'User not found' and 'Invalid credentials'.
C15_SigninFailuresSameKind ==
    /\ \A d \in UnknownEmailSignins : signin(d) = BadRequestException("User not found")
    /\ \A d \in WrongPasswordSignins :
          signin(d) = BadRequestException("Invalid credentials")
    /\ IsCall("signin") =>
          /\ resp.arg \in UnknownEmailSignins
                => resp.result = BadRequestException("User not found")
          /\ resp.arg \in WrongPasswordSignins
                => resp.result = BadRequestException("Invalid credentials")

\* signin was refused for a wrong password while another email is unknown
C15_Witness ==
    /\ IsCall("signin")
    /\ resp.arg \in WrongPasswordSignins
    /\ ~resp.result.ok
    /\ UnknownEmailSignins # {}

\* C16: changePassword accepts a new password only after it verified the
\* current one: for an unknown email, a Deactivated identity or a current
\* password that does not match the stored hash it fails with 'User not
\* found', 'User is Deactivated' or 'Invalid credentials' respectively, and
\* the table is left as it was.
C16_ChangePasswordRejects ==
    [][\A dto \in ServiceChangePasswordDtos :
         (/\ resp = NoResp
          /\ resp' = Call("changePassword", dto, resp'.result))
         => LET u == findUserByEmail(dto.email)
                refused(msg) == /\ resp'.result = BadRequestException(msg)
                                /\ users' = users
            IN  IF u = Null THEN refused("User not found")
                ELSE IF u.status = DEACTIVATED THEN refused("User is Deactivated")
                ELSE IF ~compare(dto.currentPassword, u.password)
                     THEN refused("Invalid credentials")
                ELSE resp'.result.ok]_vars

\* changePassword was refused for an Active identity because the current
\* password did not match
C16_Witness ==
    /\ IsCall("changePassword")
    /\ resp.result.error = "Invalid credentials"
    /\ \E u \in users : /\ u.email = resp.arg.email
                        /\ u.status = ACTIVE
                        /\ u.password # hash(resp.arg.currentPassword, 1)
    /\ Cardinality(users) = 2

\* what a successful changePassword leaves: the addressed row with a new
\* hash and nothing else changed, and signin accepting the new password
ChangedOnlyPassword(dto) ==
    LET u == findUserByEmail(dto.email)
    IN  /\ u # Null
        /\ \E salt \in Salts :
              users' = (users \ {u})
                          \cup {[u EXCEPT !.password = hash(dto.newPassword, salt)]}
        /\ nextId' = nextId
        /\ signin([email |-> dto.email, password |-> dto.newPassword])'.ok
        /\ signin([email |-> dto.email, password |-> dto.newPassword])'.value.id = u.id

C18_LoggerNeverFails ==
    IsCall("LoggerMiddleware") =>
        LET req == resp.arg
            verifies == /\ req.auth # NoHeader
                        /\ StartsWithBearer(req.auth)
                        /\ BearsJwt(req)
                        /\ Bearing(req).key = OrElse(secretEnv, FallbackSecret)
                        /\ resp.at < Bearing(req).exp
            attached == resp.result.currentUser \notin {Undefined, Null}
        IN  /\ resp.result.next = 1
            /\ resp.result.thrown.ok
            /\ attached <=> (verifies /\ \E u \in users : u.id = Bearing(req).id)
            /\ attached => resp.result.currentUser.id = Bearing(req).id

\* a token that verifies, for an identity deleted since it was issued, was
\* passed on without identity
C18_Witness ==
    /\ IsCall("LoggerMiddleware")
    /\ BearsJwt(resp.arg)
    /\ resp.arg.auth[1] = Word("Bearer")
    /\ Bearing(resp.arg) \in tokens
    /\ resp.at < Bearing(resp.arg).exp
    /\ users # {}
    /\ \A u \in users : u.id # Bearing(resp.arg).id
    /\ resp.result.next = 1
    /\ resp.result.currentUser = Null

\* C19: RolesGuard answers 403 'User not found' to every request outside
\* the public routes whose handler declares required roles when no identity
\* is attached to the request; it never allows such a request.
C19_NoIdentityForbidden ==
    (/\ IsCall("RolesGuard")
     /\ resp.arg.req.path \notin PublicPaths
     /\ resp.arg.roles # Undefined
     /\ resp.arg.user \in {Undefined, Null})
    => resp.result = ForbiddenException("User not found")

\* the guard refused a request to the user list that carried no identity
C19_Witness ==
    /\ IsCall("RolesGuard")
    /\ resp.arg.req.path = ApiUser
    /\ resp.arg.roles = Roles({"Admin"})
    /\ resp.arg.user = Undefined
    /\ users # {}
    /\ resp.result.http = 403
    /\ resp.result.error = "User not found"

\* C20: RolesGuard allows every request whose path is the signin or signup
\* route, whatever its query string, the identity attached and the roles the
\* handler declares.
C20_PublicPathAllowed ==
    (IsCall("RolesGuard") /\ resp.arg.req.path \in PublicPaths)
    => resp.result.ok

\* C21: the two guards agree on which requests are public. A request with
\* no token and no identity is allowed by a guard exactly when the guard
\* treats it as public, so for every such request (any path, any query
\* string) to a handler that declares roles, RolesGuard allows it iff
\* JwtAuthGuard does.
C21_AllowlistsAgree ==
    (/\ IsCall("RolesGuard")
     /\ resp.arg.roles # Undefined
     /\ resp.arg.user = Undefined
     /\ resp.arg.req.auth = NoHeader)
    => (resp.result.ok <=> JwtAuthGuard(resp.arg.req).ok)

\* the stored identity a request's token names, when the token verifies
\* under ACCESS_TOKEN_SECRET_KEY at the time of the request
SubjectOf(req, at) ==
    IF /\ BearsJwt(req)
       /\ req.auth[1] = Word("Bearer")
       /\ secretEnv # EnvUnset
       /\ Bearing(req).key = secretEnv
       /\ at < Bearing(req).exp
    THEN findById(Bearing(req).id)
    ELSE Null

AdminOnly == {"book.create", "book.update", "book.remove", "user.remove", "user.findAll"}

\* C22: in the assembled application a request bearing a valid token of an
\* identity without the Admin role never reaches the handler of an
\* Admin-only operation; it is answered 403.
C22_AdminOnly ==
    (/\ resp.kind = "http"
     /\ resp.handler \in AdminOnly
     /\ SubjectOf(resp.req, resp.at) # Null
     /\ "Admin" \notin SubjectOf(resp.req, resp.at).role)
    => (~resp.executed /\ resp.result.http = 403)

\* C23: after signup and signin, GET /api/v1/user/me bearing the returned
\* token, while it verifies and its subject is stored, is answered with the
\* identity of the token's subject, not with an error or another identity.
C23_ProfileOfSubject ==
    (/\ resp.kind = "http"
     /\ resp.req.method = "GET"
     /\ resp.req.path = ApiUser \o <<"me">>
     /\ Bearing(resp.req) \in tokens
     /\ SubjectOf(resp.req, resp.at) # Null)
    => /\ resp.executed
       /\ resp.result.ok
       /\ resp.result.value = SubjectOf(resp.req, resp.at)

\* C24: every stored identity has a non-empty role set from its creation
\* on, after any signup and update requests the DTO validation accepts. (A
\* role array of any length, the empty one included, passes @IsNotEmpty and
\* @IsArray.)
C24_RolesNonEmpty ==
    \A u \in users : u.role # {}

\* C25: RolesGuard runs after identity resolution in the assembled
\* application, under either AppModule: a request outside the public routes
\* bearing a valid token whose subject is stored is never answered 403 'User
\* not found' by RolesGuard.
C25_GuardAfterResolver ==
    (/\ resp.kind = "http"
     /\ resp.req.path \notin PublicPaths
     /\ SubjectOf(resp.req, resp.at) # Null)
    => ~(resp.result.http = 403 /\ resp.result.error = "User not found")

\* C26: there is no server-side revocation. Between iat and exp the decision
\* of JwtAuthGuard for an issued token on a guarded path does not depend on
\* the table: the token is accepted exactly when the verifier has the key it
\* was signed with, whatever has happened to its subject since (deleted,
\* deactivated, password changed).
C26_NoRevocation ==
    (/\ IsCall("JwtAuthGuard")
     /\ resp.arg.path \notin PublicPaths
     /\ resp.arg.auth[1] = Word("Bearer")
     /\ Bearing(resp.arg) \in tokens
     /\ resp.at < Bearing(resp.arg).exp)
    => (resp.result.ok <=> secretEnv = Bearing(resp.arg).key)

\* the guard accepted the token of a deleted identity, and that of an
\* identity deactivated after its password was changed
C26_Witness ==
    /\ IsCall("JwtAuthGuard")
    /\ resp.result.ok
    /\ Bearing(resp.arg) \in tokens
    /\ \/ users # {} /\ \A u \in users : u.id # Bearing(resp.arg).id
       \/ \E u \in users : /\ u.id = Bearing(resp.arg).id
                           /\ u.status = DEACTIVATED
                           /\ u.password = hash("password2", 1)

\* C27: remove(id) returns true iff an identity with that id existed and
\* was deleted; when no stored identity has that id it returns false and
\* leaves the table as it was.
C27_RemoveReportsDeletion ==
    [][\A id \in 1..MaxUsers :
         (/\ resp = NoResp
          /\ resp' = Call("remove", id, resp'.result))
         => IF \E u \in users : u.id = id
            THEN /\ resp'.result = Ok([kind |-> "boolean", b |-> TRUE])
                 /\ users' = {u \in users : u.id # id}
            ELSE /\ resp'.result = Ok([kind |-> "boolean", b |-> FALSE])
                 /\ users' = users]_vars

\* C28: authorization uses the subject's stored record as it is now. Under
\* the CurrentUserMiddleware wiring a request for an Admin-only route that
\* bears a valid token runs its handler iff the row the token's id names has
\* Admin among its roles at the time of the request, and is answered 403
\* otherwise: a token issued before an update that took the role away is
\* judged against the new role set.
C28_CurrentRecordDecides ==
    (/\ resp.kind = "http"
     /\ wiring = "CurrentUser"
     /\ resp.handler \in {"book.create", "user.findAll"}
     /\ SubjectOf(resp.req, resp.at) # Null)
    => /\ resp.executed <=> "Admin" \in SubjectOf(resp.req, resp.at).role
       /\ ~resp.executed => resp.result.http = 403

\* every identity signed up as Admin and one token was ever issued: the
\* token that carried the PATCH taking Admin away is refused on POST book
C28_Witness ==
    /\ resp.kind = "http"
    /\ wiring = "CurrentUser"
    /\ resp.handler = "book.create"
    /\ ~resp.executed
    /\ resp.result.http = 403
    /\ tokens = {Bearing(resp.req)}
    /\ SubjectOf(resp.req, resp.at) # Null
    /\ SubjectOf(resp.req, resp.at).role = {"User"}

\* the properties of a returned identity that hold text
TextProperties(value) == DOMAIN value \ {"id", "role", "password"}

\* C29: no value returned by signup, signin or changePassword contains a
\* plaintext password supplied in the request: no returned property equals the
\* raw password, current password or new password.
C29_NoPlaintextReturned ==
    (/\ resp.kind = "call"
     /\ resp.op \in {"signup", "signin", "changePassword"}
     /\ resp.result.ok)
    => LET value == resp.result.value
           supplied == IF resp.op = "changePassword"
                       THEN {resp.arg.currentPassword, resp.arg.newPassword}
                       ELSE {resp.arg.password}
       IN  /\ \A f \in TextProperties(value) : value[f] \notin supplied
           /\ value.password # Undefined => value.password.kind = "bcrypt"

\* C30: the privilege boundary. While no stored identity holds Admin, and so
\* no caller does, no request leaves a stored identity whose role set
\* contains Admin.
C30_PrivilegeBoundary ==
    [][(\A u \in users : "Admin" \notin u.role)
       => (\A u \in users' : "Admin" \notin u.role)]_vars

\* a token some verifier of the application accepts at the time of the call
HasValidToken(req, at) ==
    /\ BearsJwt(req)
    /\ Bearing(req).key = OrElse(secretEnv, FallbackSecret)
    /\ at < Bearing(req).exp

\* C3: in the assembled application, under either AppModule, a request that
\* carries no valid token runs no handler but signup and signin; to any other
\* operation the answer is 401 and the handler does not run.
C3_OnlyPublicWithoutToken ==
    (/\ resp.kind = "http"
     /\ ~HasValidToken(resp.req, resp.at)
     /\ resp.handler \notin {"user.signup", "user.signin"})
    => (~resp.executed /\ resp.result.http = 401)

\* C8: in every interleaving of signin and update requests, no token is
\* issued for an identity whose stored status is Deactivated at the moment
\* of issue.
C8_NoTokenForDeactivated ==
    [][\A t \in tokens' \ tokens :
          \A u \in users : u.id = t.id => u.status # DEACTIVATED]_vars

====
